---- MODULE Spec2Model ----
(***************************************************************************)
(* A model of pdoc's command line driver (src/pdoc/cli.py):                *)
(*   - getPackages, the depth-bounded discovery of packages and modules;   *)
(*   - main's output loop with _quit_if_exists, recursive_write_files and  *)
(*     _open_write_file;                                                   *)
(*   - _generate_lunr_search's URL interning (to_url_id);                  *)
(*   - _WebDoc, the request handler of the live server.                    *)
(* Each part has a specification of its own over the shared variables.     *)
(***************************************************************************)
EXTENDS Integers, Sequences, FiniteSets, TLC

(***************************************************************************)
(* Bounds of the model.                                                    *)
(***************************************************************************)
\* The largest search depth given to getPackages.
MaxDepth == 2
\* The longest list the subdirectory scan of _check_if_package may build
\* before the model stops following it.
MaxScan == 4

(***************************************************************************)
(* Generic helpers.                                                        *)
(***************************************************************************)
Range(s) == {s[i] : i \in 1..Len(s)}

NoDup(s) == \A i, j \in 1..Len(s) : i # j => s[i] # s[j]

RECURSIVE Flatten(_)
Flatten(ss) == IF ss = <<>> THEN <<>> ELSE Head(ss) \o Flatten(Tail(ss))

RECURSIVE SelectSeqBy(_, _)
\* The subsequence of s whose elements are in the set keep, order preserved.
SelectSeqBy(s, keep) ==
    IF s = <<>> THEN <<>>
    ELSE IF Head(s) \in keep THEN <<Head(s)>> \o SelectSeqBy(Tail(s), keep)
         ELSE SelectSeqBy(Tail(s), keep)

(***************************************************************************)
(* The file system getPackages scans.  A path is a sequence of names; the  *)
(* characters of a name are given by Chars, since the skip rules of        *)
(* _check_if_package look inside the names.                                *)
(***************************************************************************)
Chars ==
    [ proj   |-> <<"p", "r", "o", "j">>,
      pkg    |-> <<"p", "k", "g">>,
      lib    |-> <<"l", "i", "b">>,
      mydocs |-> <<"m", "y", "d", "o", "c", "s">>,
      _cache |-> <<"_", "c", "a", "c", "h", "e">>,
      other  |-> <<"o", "t", "h", "e", "r">>,
      nope   |-> <<"n", "o", "p", "e">>,
      gone   |-> <<"g", "o", "n", "e">>,
      html   |-> <<"h", "t", "m", "l">> ]

\* The directories that exist.
Dirs ==
    { <<"proj">>, <<"proj", "pkg">>, <<"proj", "lib">>, <<"proj", "mydocs">>,
      <<"proj", "_cache">>, <<"other">> }

\* os.path.isdir
isdir(p) == p \in Dirs

\* next(os.walk(directory))[1]: the names of the immediate subdirectories, in
\* the enumeration order of the file system.
WalkDirs(d) ==
    SelectSeqBy(<<"pkg", "lib", "mydocs", "_cache", "proj", "other">>,
                {n \in DOMAIN Chars : Len(d) = 1 /\ (d \o <<n>>) \in Dirs})

\* The directories getPackages can come to classify.
Candidates == {<<"proj">>, <<"proj", "pkg">>, <<"proj", "lib">>, <<"other">>}

\* The root lists given on the command line: existing and missing paths.
RootPaths == {<<"proj">>, <<"other">>, <<"nope">>, <<"gone">>}
RootLists ==
    {<<r>> : r \in RootPaths}
        \cup {p \in {<<r, s>> : r \in RootPaths, s \in RootPaths} : p[1] # p[2]}

VARIABLES
    \* the environment of getPackages
    kind,          \* what pdoc.import_module makes of a directory:
                   \*   "unit" (has __file__), "ns" (no __file__), "fail" (ImportError)
    setup,         \* whether 'setup.py' is in listdir(directory)
    ignore,        \* args.ignore
    skip_errors,   \* args.skip_errors, passed on as a keyword argument
    ori_packages,  \* the roots as given
    depth0,        \* the depth as given
    \* the locals of getPackages
    packages, depth, modules, packs, subdirs, errs,
    pkgIdx,        \* position of `for package in packages`
    \* the locals of the running _check_if_package call
    directory, packageMods, subDirs,
    scanIdx,       \* position of `for dir_ in subDirs`
    dpc,           \* "for" | "scan" | "done"
    outcome,       \* "running" | "returned" | the exception raised
    errMsg,        \* the paths the exception's message lists
    \* the output directory main writes into
    files,         \* what each file holds: "none", "partial" or the run that wrote it
    dirs,          \* the directories that exist, relative to args.output_dir
    \* the arguments and locals of the running main
    run,           \* how many runs of main have begun
    force,         \* args.force
    html,          \* args.html (otherwise text files are written: '.md')
    lunr,          \* lunr_config is not None
    main_modules,  \* modules in main: the top-level units of the run
    modIdx,        \* position of `for module in modules`
    stack,         \* the pending calls of recursive_write_files, next one first
    wpc,           \* "idle" | "check" | "write" | "index_js" | "search_html" | "exit"
    status,        \* "running" | "0" | "1" (sys.exit(1)) | "error" (an exception)
    diag,          \* the path named by _quit_if_exists' message
    \* what the properties need to remember of the run
    files0, dirs0, \* the output directory as the run found it
    wrote,         \* the files the run has written, in order
    failPath,      \* the file whose write failed
    failOpened,    \* whether it failed after open had succeeded
    failUnlinked,  \* whether os.unlink removed it
    \* the locals of the running _generate_lunr_search
    build,         \* how many builds have begun
    top_module,
    url_cache,     \* Dict[str, int]
    memo,          \* what lru_cache remembers of to_url_id: module -> id
    index,         \* the url ids of the index records, in order
    urls,          \* the URLS array, once the walk is over
    ipc,           \* "idle" | "walk" | "done"
    \* what the properties need to remember of the build
    seen,          \* the URLs interned in this build, in first-seen order
    given,         \* every (URL, id) pair to_url_id has answered in this build
    \* ---- the live server (_WebDoc) ----
    loadable,      \* the units pdoc.import_module can import
    generated,     \* the files of the output directory
    statOk,        \* os.stat of a module's file succeeds
    renderOk,      \* the templates render
    mtime,         \* st_mtime of the backing file
    method,        \* "none" | "GET" | "HEAD": the request handled last
    reqPath,       \* self.path
    if_none_match, \* the If-None-Match header: << >> when absent, else << value >>
    branch,        \* the branch of the handler that answered
    response,      \* the status sent, 0 when no status line was sent
    location,      \* the Location header
    out,           \* the kind of body echoed
    raised,        \* the exception that left the handler, "none" when it returned
    chain          \* the redirects of the current sequence of followed requests

discVars ==
    << kind, setup, ignore, skip_errors, ori_packages, depth0, packages, depth,
       modules, packs, subdirs, errs, pkgIdx, directory, packageMods, subDirs,
       scanIdx, dpc, outcome, errMsg >>

outVars ==
    << files, dirs, run, force, html, lunr, main_modules, modIdx, stack, wpc, status, diag,
       files0, dirs0, wrote, failPath, failOpened, failUnlinked >>

idxVars == << build, top_module, url_cache, memo, index, urls, ipc, seen, given >>

srvVars ==
    << loadable, generated, statOk, renderOk, mtime, method, reqPath, if_none_match,
       branch, response, location, out, raised, chain >>

vars == << discVars, outVars, idxVars, srvVars >>

(***************************************************************************)
(* _check_if_package: the skip rules.                                      *)
(***************************************************************************)
\* Python's `j in i` on strings.
Contains(sub, s) ==
    \E k \in 0..(Len(s) - Len(sub)) : SubSeq(s, k + 1, k + Len(sub)) = sub

args_output_dir == "html"

SKIP_DIRS_DEFAULT ==
    << <<"v", "e", "n", "v">>, <<"d", "o", "c", "s">>,
       <<"e", "g", "g", "-", "i", "n", "f", "o">>, <<"b", "u", "i", "l", "d">>,
       <<"d", "i", "s", "t">>,
       <<"v", "i", "r", "t", "u", "a", "l", "e", "n", "v">> >>

SKIP_PREPEND == {".", "_"}

SKIP_DIRS ==
    SKIP_DIRS_DEFAULT \o [k \in 1..Len(ignore) |-> Chars[ignore[k]]]
        \o <<Chars[args_output_dir]>>

\* The filter of the list comprehension at cli.py:216-217.
Skipped(i) ==
    \/ \E k \in 1..Len(SKIP_DIRS) : Contains(SKIP_DIRS[k], Chars[i])
    \/ Chars[i][1] \in SKIP_PREPEND

ListSubDirs(d) ==
    LET names == WalkDirs(d)
        kept  == SelectSeqBy(names, {n \in Range(names) : ~Skipped(n)})
    IN  [k \in 1..Len(kept) |-> d \o <<kept[k]>>]

\* os.path.split(package)[1]
SplitTail(p) == p[Len(p)]

(***************************************************************************)
(* getPackages.                                                            *)
(***************************************************************************)
DiscInit ==
    /\ kind \in [Candidates -> {"unit", "ns", "fail"}]
    /\ setup \in [Candidates -> BOOLEAN]
    /\ ignore \in {<<>>, <<"lib">>}
    /\ skip_errors \in BOOLEAN
    /\ ori_packages \in RootLists
    /\ depth0 \in 1..MaxDepth
    /\ packages = ori_packages
    /\ depth = depth0
    /\ modules = <<>> /\ packs = <<>> /\ subdirs = <<>> /\ errs = <<>>
    /\ pkgIdx = 1
    /\ directory = <<>> /\ packageMods = <<>> /\ subDirs = <<>> /\ scanIdx = 1
    /\ dpc = "for"
    /\ outcome = "running"
    /\ errMsg = <<>>

DiscEnv == << kind, setup, ignore, skip_errors, ori_packages, depth0 >>

Raise(exc, msg) ==
    /\ dpc' = "done"
    /\ outcome' = exc
    /\ errMsg' = msg

\* cli.py:238-242: what the loop does with the triple _check_if_package returns.
TakeResult(package, mods, pack, subd) ==
    /\ IF pack
       THEN /\ packs' = Append(packs, <<SplitTail(package), mods>>)
            /\ UNCHANGED << modules, subdirs >>
       ELSE /\ modules' = modules \o mods
            /\ subdirs' = subdirs \o subd
            /\ UNCHANGED packs
    /\ pkgIdx' = pkgIdx + 1

\* cli.py:243-244: the entry is no existing directory.
ForMissing ==
    /\ dpc = "for" /\ pkgIdx <= Len(packages)
    /\ ~isdir(packages[pkgIdx])
    /\ errs' = Append(errs, packages[pkgIdx])
    /\ pkgIdx' = pkgIdx + 1
    /\ UNCHANGED << DiscEnv, packages, depth, modules, packs, subdirs, directory,
                    packageMods, subDirs, scanIdx, dpc, outcome, errMsg >>
    /\ UNCHANGED << outVars, idxVars, srvVars >>

\* cli.py:213: pdoc.import_module raises inside _check_if_module(directory).
ForImportError ==
    /\ dpc = "for" /\ pkgIdx <= Len(packages)
    /\ isdir(packages[pkgIdx])
    /\ kind[packages[pkgIdx]] = "fail"
    /\ Raise("ImportError", <<packages[pkgIdx]>>)
    /\ UNCHANGED << DiscEnv, packages, depth, modules, packs, subdirs, errs, pkgIdx,
                    directory, packageMods, subDirs, scanIdx >>
    /\ UNCHANGED << outVars, idxVars, srvVars >>

\* cli.py:213-214, 223: the entry is a module itself; the call returns at once.
ForUnit ==
    /\ dpc = "for" /\ pkgIdx <= Len(packages)
    /\ isdir(packages[pkgIdx])
    /\ kind[packages[pkgIdx]] = "unit"
    /\ TakeResult(packages[pkgIdx], <<packages[pkgIdx]>>,
                  setup[packages[pkgIdx]], <<>>)
    /\ UNCHANGED << DiscEnv, packages, depth, errs, directory, packageMods,
                    subDirs, scanIdx, dpc, outcome, errMsg >>
    /\ UNCHANGED << outVars, idxVars, srvVars >>

\* cli.py:215-217: the entry is no module; its subdirectories are listed and the
\* scan of them begins.
ForExpand ==
    /\ dpc = "for" /\ pkgIdx <= Len(packages)
    /\ isdir(packages[pkgIdx])
    /\ kind[packages[pkgIdx]] = "ns"
    /\ directory' = packages[pkgIdx]
    /\ packageMods' = <<>>
    /\ subDirs' = ListSubDirs(packages[pkgIdx])
    /\ scanIdx' = 1
    /\ dpc' = "scan"
    /\ UNCHANGED << DiscEnv, packages, depth, modules, packs, subdirs, errs, pkgIdx,
                    outcome, errMsg >>
    /\ UNCHANGED << outVars, idxVars, srvVars >>

\* cli.py:222: a subdirectory that is no module is appended to the list the
\* loop is iterating over.
ScanKeep(dir_) == Append(subDirs, dir_)

\* cli.py:218-222: one iteration of `for dir_ in subDirs`.
ScanStep ==
    /\ dpc = "scan" /\ scanIdx <= Len(subDirs)
    /\ LET dir_ == subDirs[scanIdx] IN
         CASE kind[dir_] = "fail" ->
                /\ Raise("ImportError", <<dir_>>)
                /\ UNCHANGED << packageMods, subDirs, scanIdx >>
           [] kind[dir_] = "unit" ->
                /\ packageMods' = Append(packageMods, dir_)
                /\ scanIdx' = scanIdx + 1
                /\ UNCHANGED << subDirs, dpc, outcome, errMsg >>
           [] kind[dir_] = "ns" ->
                /\ Len(subDirs) < MaxScan
                /\ subDirs' = ScanKeep(dir_)
                /\ scanIdx' = scanIdx + 1
                /\ UNCHANGED << packageMods, dpc, outcome, errMsg >>
    /\ UNCHANGED << DiscEnv, packages, depth, modules, packs, subdirs, errs, pkgIdx,
                    directory >>
    /\ UNCHANGED << outVars, idxVars, srvVars >>

\* cli.py:223, 237-242: the scan is over; _check_if_package returns.
ScanReturn ==
    /\ dpc = "scan" /\ scanIdx > Len(subDirs)
    /\ TakeResult(packages[pkgIdx], packageMods, setup[directory], subDirs)
    /\ dpc' = "for"
    /\ UNCHANGED << DiscEnv, packages, depth, errs, directory, packageMods,
                    subDirs, scanIdx, outcome, errMsg >>
    /\ UNCHANGED << outVars, idxVars, srvVars >>

\* The per-level check, asking for no recorded error either.
LevelEmptyNoErrs ==
    packs = <<>> /\ modules = <<>> /\ subdirs = <<>> /\ errs = <<>>

\* cli.py:245: the per-level check.
LevelEmpty == packs = <<>> /\ modules = <<>> /\ subdirs = <<>>

\* cli.py:245-252: the end of one round of `while depth`, and, when the depth
\* is used up, the end of the call.
RoundEnd ==
    /\ dpc = "for" /\ pkgIdx > Len(packages)
    /\ IF LevelEmpty
       THEN /\ Raise("FileNotFoundError", errs)
            /\ UNCHANGED << packages, depth, subdirs, errs, pkgIdx >>
       ELSE /\ depth' = depth - 1
            /\ packages' = subdirs
            /\ subdirs' = <<>>
            /\ errs' = <<>>
            /\ pkgIdx' = 1
            /\ IF depth - 1 # 0
               THEN UNCHANGED << dpc, outcome, errMsg >>
               ELSE IF modules = <<>> /\ packs = <<>>
                    THEN Raise("ModuleNotFoundError", ori_packages)
                    ELSE /\ dpc' = "done"
                         /\ outcome' = "returned"
                         /\ UNCHANGED errMsg
    /\ UNCHANGED << DiscEnv, modules, packs, directory, packageMods, subDirs,
                    scanIdx >>
    /\ UNCHANGED << outVars, idxVars, srvVars >>

DiscNext ==
    \/ ForMissing
    \/ ForImportError
    \/ ForUnit
    \/ ForExpand
    \/ ScanStep
    \/ ScanReturn
    \/ RoundEnd

(***************************************************************************)
(* The units main writes and where their files go.                         *)
(***************************************************************************)
\* pdoc.Module objects, named by the parts of their dotted names.
Units == {<<"p">>, <<"p", "s">>, <<"p", "s", "b">>, <<"p", "a">>, <<"m">>}

\* The units getModules hands to main.
TopUnits == {<<"p">>, <<"m">>}

\* pdoc.Module.submodules(), in its order.
submodules(m) ==
    CASE m = <<"p">> -> << <<"p", "s">>, <<"p", "a">> >>
      [] m = <<"p", "s">> -> << <<"p", "s", "b">> >>
      [] OTHER -> <<>>

\* pdoc.Module.is_package
is_package(m) == m \in {<<"p">>, <<"p", "s">>}

\* pdoc.Module.url(): a package's index file inside its own directory, a
\* module's file beside its siblings.  A file path is its directory, the stem
\* of the file name and its suffix.
url(m) ==
    IF is_package(m)
    THEN [dir |-> m, stem |-> "index", suffix |-> ".html"]
    ELSE [dir |-> SubSeq(m, 1, Len(m) - 1), stem |-> m[Len(m)], suffix |-> ".html"]

\* cli.py:415-416: re.sub(r'\.html$', ext, m.url()), below args.output_dir.
module_path(m, ext) ==
    [url(m) EXCEPT !.suffix = IF @ = ".html" THEN ext ELSE @]

\* os.path.dirname of a file path.
dirname(f) == f.dir

\* cli.py:531-532: where the search assets of a top-level unit go.
main_path(top) == IF is_package(top) THEN top ELSE <<>>

index_js(top) == [dir |-> main_path(top), stem |-> "index", suffix |-> ".js"]

search_html(top) == [dir |-> main_path(top), stem |-> "search", suffix |-> ".html"]

Exts == {".html", ".md"}

AllFiles ==
    {module_path(m, e) : m \in Units, e \in Exts}
        \cup {index_js(m) : m \in TopUnits} \cup {search_html(m) : m \in TopUnits}

NoPath == [dir |-> <<>>, stem |-> "", suffix |-> ""]

\* The two runs of main on one output directory, and what each writes.
RunTags == <<"first", "second">>

\* The longest list of top-level units a run is given; getModules may name a
\* unit more than once.
MaxMods == 2

ModLists ==
    UNION {[1..n -> TopUnits] : n \in 1..MaxMods}

\* ext of the run: cli.py:693-694 and cli.py:701-702.
Ext == IF html THEN ".html" ELSE ".md"

(***************************************************************************)
(* _quit_if_exists, _open_write_file, recursive_write_files.               *)
(***************************************************************************)
\* os.path.lexists of a file path.
FileExists(fs, f) == fs[f] # "none"

\* _quit_if_exists looking at the file only.
QuitPathsFileOnly(m, ext) == <<module_path(m, ext)>>

\* cli.py:423-425: the paths _quit_if_exists looks at; a directory is given as
\* a path without a file name.
QuitPaths(m, ext) ==
    IF is_package(m)
    THEN <<module_path(m, ext),
           [dir |-> dirname(module_path(m, ext)), stem |-> "", suffix |-> ""]>>
    ELSE <<module_path(m, ext)>>

\* os.path.lexists of either kind of path.
lexists(fs, ds, pth) ==
    IF pth.stem = "" THEN pth.dir \in ds ELSE FileExists(fs, pth)

\* cli.py:427-428: the first of the paths that exists, if any.
FirstExisting(fs, ds, paths) ==
    LET hits == {k \in 1..Len(paths) : lexists(fs, ds, paths[k])}
    IN  IF hits = {} THEN NoPath
        ELSE paths[CHOOSE k \in hits : \A j \in hits : k <= j]

\* os.makedirs: the directory and every directory above it.
makedirs(ds, d) == ds \cup {SubSeq(d, 1, k) : k \in 0..Len(d)}

\* A failed write that leaves the file as the failure left it.
AfterUnlinkKept(content, unlinkOk) == content

\* cli.py:441-444: os.unlink(filename), its own failure swallowed.
AfterUnlink(content, unlinkOk) == IF unlinkOk THEN "none" ELSE content

\* Whether os.unlink can fail on a file that is there: a file the write has
\* just created can be removed again; one that was there before may be
\* writable and yet not removable (a directory without write permission).
UnlinkOutcomes(before) == IF before = "none" THEN {TRUE} ELSE BOOLEAN

\* cli.py:437: open(filename, 'w') creates or truncates the file.
AfterOpen(content, opened) == IF opened THEN "partial" ELSE content

\* The calls for the submodules put behind whatever was pending.
NextWorkBreadthFirst(m, rest) == rest \o submodules(m)

\* The calls a finished call leaves, without the calls for the submodules.
NextWorkNoRecursion(m, rest) == rest

\* cli.py:462-463: the calls for the submodules come before whatever was pending.
NextWork(m, rest) == submodules(m) \o rest

OutInit ==
    /\ files = [f \in AllFiles |-> "none"]
    /\ dirs = {}
    /\ run = 0
    /\ force = FALSE /\ html = FALSE /\ lunr = FALSE
    /\ main_modules = <<>> /\ modIdx = 1 /\ stack = <<>>
    /\ wpc = "idle"
    /\ status = "running"
    /\ diag = NoPath
    /\ files0 = files /\ dirs0 = dirs
    /\ wrote = <<>>
    /\ failPath = NoPath
    /\ failOpened = FALSE
    /\ failUnlinked = FALSE

OutArgs == << run, force, html, lunr, main_modules >>
OutStart == << files0, dirs0 >>

\* cli.py:547-550, 651-654: main begins, on the output directory as the run
\* before left it.
StartRun ==
    /\ wpc \in {"idle", "exit"}
    /\ run < Len(RunTags)
    /\ run' = run + 1
    /\ force' \in BOOLEAN
    /\ html' \in BOOLEAN
    /\ lunr' \in BOOLEAN
    /\ main_modules' \in ModLists
    /\ modIdx' = 1
    /\ stack' = <<>>
    /\ wpc' = "check"
    /\ status' = "running"
    /\ diag' = NoPath
    /\ files0' = files /\ dirs0' = dirs
    /\ wrote' = <<>>
    /\ failPath' = NoPath
    /\ failOpened' = FALSE
    /\ failUnlinked' = FALSE
    /\ UNCHANGED << files, dirs >>
    /\ UNCHANGED << discVars, idxVars, srvVars >>

\* cli.py:419-431, called at cli.py:693 and cli.py:701.
QuitIfExists ==
    /\ wpc = "check" /\ modIdx <= Len(main_modules)
    /\ LET hit == FirstExisting(files, dirs, QuitPaths(main_modules[modIdx], Ext)) IN
         IF ~force /\ hit # NoPath
         THEN /\ diag' = hit
              /\ status' = "1"
              /\ wpc' = "exit"
              /\ UNCHANGED stack
         ELSE /\ stack' = <<main_modules[modIdx]>>
              /\ wpc' = "write"
              /\ UNCHANGED << diag, status >>
    /\ UNCHANGED << files, dirs, OutArgs, modIdx, OutStart, wrote, failPath,
                    failOpened, failUnlinked >>
    /\ UNCHANGED << discVars, idxVars, srvVars >>

\* cli.py:434-445: `with _open_write_file(filename)` around a write.  The write
\* succeeds, or open fails, or something fails after open; on a failure the
\* file is unlinked, which may fail too.
OpenWriteFile(filename, next) ==
    \/ /\ files' = [files EXCEPT ![filename] = RunTags[run]]
       /\ wrote' = Append(wrote, filename)
       /\ wpc' = next
       /\ UNCHANGED << status, failPath, failOpened, failUnlinked >>
    \/ \E opened \in BOOLEAN, unlinkOk \in UnlinkOutcomes(files[filename]) :
          /\ files' = [files EXCEPT
                         ![filename] = AfterUnlink(AfterOpen(@, opened), unlinkOk)]
          /\ failPath' = filename
          /\ failOpened' = opened
          /\ failUnlinked' = unlinkOk
          /\ status' = "error"
          /\ wpc' = "exit"
          /\ UNCHANGED wrote

\* cli.py:448-463: one call of recursive_write_files, up to its recursive calls.
WriteFiles ==
    /\ wpc = "write" /\ stack # <<>>
    /\ LET m == Head(stack)
           filepath == module_path(m, Ext)
       IN  /\ dirs' = makedirs(dirs, dirname(filepath))
           /\ OpenWriteFile(filepath, "write")
           /\ stack' = IF status' = "error" THEN stack ELSE NextWork(m, Tail(stack))
    /\ UNCHANGED << OutArgs, modIdx, diag, OutStart >>
    /\ UNCHANGED << discVars, idxVars, srvVars >>

\* cli.py:694-698, 702: recursive_write_files has returned to main.
WriteReturn ==
    /\ wpc = "write" /\ stack = <<>>
    /\ IF html /\ lunr
       THEN wpc' = "index_js" /\ UNCHANGED modIdx
       ELSE wpc' = "check" /\ modIdx' = modIdx + 1
    /\ UNCHANGED << files, dirs, OutArgs, stack, status, diag, OutStart, wrote,
                    failPath, failOpened, failUnlinked >>
    /\ UNCHANGED << discVars, idxVars, srvVars >>

\* cli.py:533-537: _generate_lunr_search writes index.js.
WriteIndexJs ==
    /\ wpc = "index_js"
    /\ OpenWriteFile(index_js(main_modules[modIdx]), "search_html")
    /\ UNCHANGED << dirs, OutArgs, modIdx, stack, diag, OutStart >>
    /\ UNCHANGED << discVars, idxVars, srvVars >>

\* cli.py:540-544: _generate_lunr_search writes search.html and returns.
WriteSearchHtml ==
    /\ wpc = "search_html"
    /\ OpenWriteFile(search_html(main_modules[modIdx]), "check")
    /\ modIdx' = IF status' = "error" THEN modIdx ELSE modIdx + 1
    /\ UNCHANGED << dirs, OutArgs, stack, diag, OutStart >>
    /\ UNCHANGED << discVars, idxVars, srvVars >>

\* cli.py:691: the loop over the modules is over; main returns.
RunEnd ==
    /\ wpc = "check" /\ modIdx > Len(main_modules)
    /\ status' = "0"
    /\ wpc' = "exit"
    /\ UNCHANGED << files, dirs, OutArgs, modIdx, stack, diag, OutStart, wrote,
                    failPath, failOpened, failUnlinked >>
    /\ UNCHANGED << discVars, idxVars, srvVars >>

OutNext ==
    \/ StartRun
    \/ QuitIfExists
    \/ WriteFiles
    \/ WriteReturn
    \/ WriteIndexJs
    \/ WriteSearchHtml
    \/ RunEnd

(***************************************************************************)
(* _generate_lunr_search: the walk over the documentation objects and the  *)
(* interning of their modules' URLs.                                       *)
(***************************************************************************)
\* The builds of one run and the index records of one build the model follows.
MaxBuilds == 2
MaxIndex == 4

\* The modules the documentation objects below a top-level unit belong to.
TreeUnits(top) == {m \in Units : SubSeq(m, 1, Len(top)) = top}

\* cli.py:518-520: the URL to_url_id interns; below a package the leading path
\* segment is split off.
InternedUrl(top, module) ==
    IF is_package(top)
    THEN [url(module) EXCEPT !.dir = Tail(@)]
    ELSE url(module)

\* An id taken from the number of index records so far.
NextUrlIdByIndex(cache) == Len(index)

\* cli.py:522: len(url_cache)
NextUrlId(cache) == Cardinality(DOMAIN cache)

\* cli.py:521-522: url_cache after the URL has been looked up.
CacheWith(cache, u) ==
    IF u \in DOMAIN cache THEN cache ELSE cache @@ (u :> NextUrlId(cache))

\* cli.py:528: the URLs sorted by their ids.
SortedUrls(cache) ==
    [k \in 1..Cardinality(DOMAIN cache) |->
        CHOOSE u \in DOMAIN cache : cache[u] = k - 1]

IdxInit ==
    /\ build = 0
    /\ top_module = <<>>
    /\ url_cache = <<>>
    /\ memo = <<>>
    /\ index = <<>>
    /\ urls = <<>>
    /\ ipc = "idle"
    /\ seen = <<>>
    /\ given = {}

\* cli.py:525-527: a build begins with an empty index and an empty url_cache;
\* to_url_id is defined anew (cli.py:516-517), so nothing is memoized.
StartBuild ==
    /\ ipc \in {"idle", "done"}
    /\ build < MaxBuilds
    /\ build' = build + 1
    /\ top_module' \in TopUnits
    /\ url_cache' = <<>>
    /\ memo' = <<>>
    /\ index' = <<>>
    /\ urls' = <<>>
    /\ ipc' = "walk"
    /\ seen' = <<>>
    /\ given' = {}
    /\ UNCHANGED << discVars, outVars, srvVars >>

\* cli.py:503-514 with 516-523: recursive_add_to_index reaches the next
\* documentation object, of some module below the top one, and interns it.
AddToIndex ==
    /\ ipc = "walk"
    /\ Len(index) < MaxIndex
    /\ \E module \in TreeUnits(top_module) :
          LET u   == InternedUrl(top_module, module)
              hit == module \in DOMAIN memo
              id  == IF hit THEN memo[module] ELSE CacheWith(url_cache, u)[u]
          IN  /\ url_cache' = IF hit THEN url_cache ELSE CacheWith(url_cache, u)
              /\ memo' = IF hit THEN memo ELSE memo @@ (module :> id)
              /\ index' = Append(index, id)
              /\ seen' = IF u \in Range(seen) THEN seen ELSE Append(seen, u)
              /\ given' = given \cup {<<u, id>>}
    /\ UNCHANGED << build, top_module, urls, ipc >>
    /\ UNCHANGED << discVars, outVars, srvVars >>

\* cli.py:528: the walk is over; URLS is read off url_cache.
FinishWalk ==
    /\ ipc = "walk"
    /\ index # <<>>
    /\ urls' = SortedUrls(url_cache)
    /\ ipc' = "done"
    /\ UNCHANGED << build, top_module, url_cache, memo, index, seen, given >>
    /\ UNCHANGED << discVars, outVars, srvVars >>

IdxNext ==
    \/ StartBuild
    \/ AddToIndex
    \/ FinishWalk

(***************************************************************************)
(* The live documentation server: _WebDoc (cli.py:264-412).                *)
(*                                                                         *)
(* A request path is the sequence of its separators ("/", ".", "#") and    *)
(* of the names between them, so "/p/a.html" is                            *)
(* << "/", "p", "/", "a", ".", "html" >>.  Every suffix the handler tests  *)
(* begins with a separator, hence endswith, slicing, lstrip, split and     *)
(* replace act on these sequences as they act on the strings.              *)
(***************************************************************************)
MaxParts == 2
\* the largest modification time the backing file takes
MaxMtime == 2
\* the number of Location headers a client follows in a row
MaxFollow == 4

\* pdoc's URL suffixes and the literals of do_GET
_URL_PACKAGE_SUFFIX == << "/", "index", ".", "html" >>
_URL_INDEX_MODULE_SUFFIX == << ".", "m", ".", "html" >>
_URL_MODULE_SUFFIX == << ".", "html" >>
DOT_EXT == << ".", "ext" >>
DOT_HTML == << ".", "html" >>
SLASH == << "/" >>
FAVICON == << "/", "favicon", ".", "ico" >>

\* str.endswith
endswith(s, suffix) ==
    /\ Len(s) >= Len(suffix)
    /\ SubSeq(s, Len(s) - Len(suffix) + 1, Len(s)) = suffix

\* s[:-len(suffix)]
DropLast(s, suffix) == SubSeq(s, 1, Len(s) - Len(suffix))

\* str.lstrip(ch)
RECURSIVE lstrip(_, _)
lstrip(s, ch) ==
    IF s # <<>> /\ Head(s) = ch THEN lstrip(Tail(s), ch) ELSE s

\* str.split(sep): the list of the pieces between the separators
RECURSIVE split(_, _)
split(s, sep) ==
    LET at == {k \in 1..Len(s) : s[k] = sep} IN
        IF at = {} THEN << s >>
        ELSE LET k == CHOOSE i \in at : \A j \in at : i <= j IN
                 << SubSeq(s, 1, k - 1) >> \o split(SubSeq(s, k + 1, Len(s)), sep)

\* str.replace(old, new) for one-character old and new
replace(s, old, new) == [k \in 1..Len(s) |-> IF s[k] = old THEN new ELSE s[k]]

\* posixpath.join(a, b)
join(a, b) ==
    IF b # <<>> /\ Head(b) = "/" THEN b
    ELSE IF a = <<>> \/ a[Len(a)] = "/" THEN a \o b
    ELSE a \o SLASH \o b

\* posixpath.join(*parts)
RECURSIVE joinAll(_)
joinAll(parts) ==
    IF Len(parts) = 1 THEN parts[1]
    ELSE join(joinAll(SubSeq(parts, 1, Len(parts) - 1)), parts[Len(parts)])

\* The dotted name of a unit: << "p", "a" >> is "p.a".
RECURSIVE Dotted(_)
Dotted(u) ==
    IF Len(u) = 1 THEN << u[1] >>
    ELSE Dotted(SubSeq(u, 1, Len(u) - 1)) \o << ".", u[Len(u)] >>

\* The units the served project can have, and the modules on the command line.
SrvNames == {"p", "a"}
SrvUnits == {<< "p" >>, << "p", "a" >>}
args_modules == << << "p" >> >>

\* The files a generated output directory can hold for them.
OutputDir == << args_output_dir >>
GenFiles ==
    { OutputDir \o f : f \in
        { << "/", "p", "/", "index", ".", "html" >>,
          << "/", "p", "/", "a", ".", "html" >>,
          << "/", "p", "/", "a", "/", "index", ".", "html" >> } }

\* The request paths: "/", "/favicon.ico", and "/" followed by up to MaxParts
\* names joined by "/" or "." and by one of the endings the handler tells apart.
RECURSIVE BodiesOf(_)
BodiesOf(k) ==
    IF k = 1 THEN {<< n >> : n \in SrvNames}
    ELSE {b \o << s, n >> : b \in BodiesOf(k - 1), s \in {"/", "."}, n \in SrvNames}

Endings ==
    { <<>>, SLASH, DOT_HTML, _URL_PACKAGE_SUFFIX, _URL_INDEX_MODULE_SUFFIX,
      DOT_EXT, << "#", "a" >> }

ReqPaths ==
    {SLASH, FAVICON} \cup
    {SLASH \o b \o e : b \in UNION {BodiesOf(k) : k \in 1..MaxParts}, e \in Endings}

\* The If-None-Match header of a request: absent, or one value.
HeaderValues == {ToString(t) : t \in 1..MaxMtime} \cup {"stale"}
Headers == {<<>>} \cup {<< v >> : v \in HeaderValues}

\* headers.get(name, default)
headers_get(h, default) == IF h = <<>> THEN default ELSE h[1]

\* pdoc.import_module(name) returns a module rather than raising ImportError.
Importable(name) == \E u \in loadable : Dotted(u) = name

\* pdoc.html(name, ...) returns a page rather than raising.
Renders(name) == Importable(name) /\ renderOk

\* cli.py:403-412
import_path_from_req_url(p) ==
    LET pth == lstrip(split(p, "#")[1], "/")
        suffixes == << SLASH, _URL_PACKAGE_SUFFIX, _URL_INDEX_MODULE_SUFFIX,
                       _URL_MODULE_SUFFIX >>
        hit == {k \in 1..Len(suffixes) : endswith(pth, suffixes[k])}
        first == CHOOSE k \in hit : \A j \in hit : k <= j
    IN replace(IF hit = {} THEN pth ELSE DropLast(pth, suffixes[first]), "/", ".")

\* None, for a function that otherwise returns a non-empty string
None == <<>>

\* cli.py:383-391 with the module file looked for first.
existsModuleFirst(p) ==
    LET q == join(OutputDir, p)
        pkg == join(q, lstrip(_URL_PACKAGE_SUFFIX, "/"))
        mod == q \o _URL_MODULE_SUFFIX
    IN IF mod \in generated THEN SubSeq(mod, Len(OutputDir) + 1, Len(mod))
       ELSE IF pkg \in generated THEN SubSeq(pkg, Len(OutputDir) + 1, Len(pkg))
       ELSE None

\* cli.py:383-391: the package index is looked for before the module file.
exists(p) ==
    LET q == join(OutputDir, p)
        pkg == join(q, lstrip(_URL_PACKAGE_SUFFIX, "/"))
        mod == q \o _URL_MODULE_SUFFIX
    IN IF pkg \in generated THEN SubSeq(pkg, Len(OutputDir) + 1, Len(pkg))
       ELSE IF mod \in generated THEN SubSeq(mod, Len(OutputDir) + 1, Len(mod))
       ELSE None

\* cli.py:395-400: the loop of resolve_ext from prefix i downwards
RECURSIVE resolve_from(_, _, _)
resolve_from(parts, i, import_path) ==
    IF i = 0 THEN None
    ELSE LET realp == exists(joinAll(SubSeq(parts, 1, i))) IN
             IF realp # None
             THEN SLASH \o lstrip(realp, "/") \o << "#" >> \o import_path
             ELSE resolve_from(parts, i - 1, import_path)

\* cli.py:382-400
resolve_ext(import_path) ==
    LET parts == split(import_path, ".") IN
        resolve_from(parts, Len(parts), import_path)

\* What one request is answered with.  response is the status of the status
\* line, 0 when the handler sends none; raised is the exception that leaves
\* the handler, "none" when it returns.
Answer(b, code, loc, body, exc) ==
    [branch |-> b, response |-> code, location |-> loc, out |-> body, raised |-> exc]

\* cli.py:362-365
redirect(b, loc) == Answer(b, 302, loc, "none", "none")

\* The same with the trailing-slash test made before the '.ext' test.
GetBranchSlashFirst(p) ==
    IF p = FAVICON THEN "favicon"
    ELSE IF p = SLASH THEN "root"
    ELSE IF ~(endswith(p, SLASH) \/ endswith(p, DOT_HTML)) THEN "slash"
    ELSE IF endswith(p, DOT_EXT) THEN "ext"
    ELSE IF endswith(p, _URL_PACKAGE_SUFFIX) THEN "package"
    ELSE "page"

\* cli.py:294-346: the branch of do_GET a path takes, by the first test it passes
GetBranch(p) ==
    IF p = FAVICON THEN "favicon"
    ELSE IF p = SLASH THEN "root"
    ELSE IF endswith(p, DOT_EXT) THEN "ext"
    ELSE IF ~(endswith(p, SLASH) \/ endswith(p, DOT_HTML)) THEN "slash"
    ELSE IF endswith(p, _URL_PACKAGE_SUFFIX) THEN "package"
    ELSE "page"

\* cli.py:345 without the '/' put in the suffix's place
PackageTargetBare(p) == DropLast(p, _URL_PACKAGE_SUFFIX)

\* cli.py:342 and cli.py:345: the targets of the two plain redirects
SlashTarget(p) == p \o SLASH
PackageTarget(p) == DropLast(p, _URL_PACKAGE_SUFFIX) \o SLASH

\* cli.py:299-310: the index page imports every module of the command line
\* and renders the template outside any try block.
GetRoot ==
    IF \E k \in 1..Len(args_modules) : ~Importable(Dotted(args_modules[k]))
    THEN Answer("root", 0, <<>>, "none", "ImportError")
    ELSE IF ~renderOk THEN Answer("root", 0, <<>>, "none", "Exception")
    ELSE Answer("root", 200, <<>>, "index", "none")

\* cli.py:312-338
GetExt(p) ==
    LET import_path == lstrip(DropLast(p, DOT_EXT), "/")
        resolved == resolve_ext(import_path)
    IN IF resolved = None
       THEN IF Renders(split(import_path, ".")[1])
            THEN Answer("ext", 200, <<>>, "generated", "none")
            ELSE Answer("ext", 404, <<>>, "error", "none")
       ELSE redirect("ext", resolved)

\* cli.py:346-355
GetPage(p) ==
    IF Renders(import_path_from_req_url(p))
    THEN Answer("page", 200, <<>>, "page", "none")
    ELSE Answer("page", 404, <<>>, "error", "none")

\* cli.py:292-360
do_GET(p) ==
    LET b == GetBranch(p) IN
        CASE b = "favicon" -> Answer(b, 0, <<>>, "none", "none")
          [] b = "root" -> GetRoot
          [] b = "ext" -> GetExt(p)
          [] b = "slash" -> redirect(b, SlashTarget(p))
          [] b = "package" -> redirect(b, PackageTarget(p))
          [] b = "page" -> GetPage(p)

\* cli.py:284-290 with the default of headers.get dropped: an absent header
\* compares as the empty string.
CompareEtagNoDefault(h, new_etag) ==
    IF headers_get(h, "") = new_etag THEN 304 ELSE 205

\* cli.py:284-290
CompareEtag(h, new_etag) ==
    IF headers_get(h, new_etag) = new_etag THEN 304 ELSE 205

\* cli.py:277-290: the status, when os.stat does not raise
check_modified(p, h) ==
    IF ~Importable(import_path_from_req_url(p)) THEN 404
    ELSE CompareEtag(h, ToString(mtime))

\* cli.py:268-290: only ImportError is caught around import_module and os.stat.
do_HEAD(p, h) ==
    IF p = SLASH THEN Answer("head", 200, <<>>, "none", "none")
    ELSE IF Importable(import_path_from_req_url(p)) /\ ~statOk
         THEN Answer("head", 0, <<>>, "none", "OSError")
         ELSE Answer("head", check_modified(p, h), <<>>, "none", "none")

\* What a client requests for a Location header: the fragment stays with it.
StripFragment(loc) == split(loc, "#")[1]

SrvEnv == << loadable, generated, statOk, renderOk >>
Request == << method, reqPath, if_none_match >>
Reply == << branch, response, location, out, raised >>

SrvInit ==
    /\ loadable \in SUBSET SrvUnits
    /\ generated \in SUBSET GenFiles
    /\ statOk \in BOOLEAN
    /\ renderOk \in BOOLEAN
    /\ mtime \in 1..MaxMtime
    /\ method = "none" /\ reqPath = <<>> /\ if_none_match = <<>>
    /\ branch = "none" /\ response = 0 /\ location = <<>> /\ out = "none"
    /\ raised = "none"
    /\ chain = <<>>

\* The server part while another part of the program runs.
SrvQuiet ==
    /\ loadable = {} /\ generated = {} /\ statOk = TRUE /\ renderOk = TRUE
    /\ mtime = 1
    /\ method = "none" /\ reqPath = <<>> /\ if_none_match = <<>>
    /\ branch = "none" /\ response = 0 /\ location = <<>> /\ out = "none"
    /\ raised = "none"
    /\ chain = <<>>

Replies(r) ==
    /\ branch' = r.branch
    /\ response' = r.response
    /\ location' = r.location
    /\ out' = r.out
    /\ raised' = r.raised

\* The redirects of the requests a client has made by following Location
\* headers, the one just received included.
ChainWith(c, r) == IF r.response = 302 THEN Append(c, r.branch) ELSE c

\* A client sends a GET request of its own; the handler takes one request
\* at a time.
GetRequest ==
    \E p \in ReqPaths :
        /\ method = "none"
        /\ method' = "GET" /\ reqPath' = p /\ if_none_match' = <<>>
        /\ Replies(do_GET(p))
        /\ chain' = ChainWith(<<>>, do_GET(p))
        /\ UNCHANGED << SrvEnv, mtime >>
        /\ UNCHANGED << discVars, outVars, idxVars >>

\* A client follows the Location header of the redirect it has received.
FollowLocation ==
    /\ method = "GET" /\ response = 302
    /\ Len(chain) < MaxFollow
    /\ LET p == StripFragment(location) IN
           /\ method' = "GET" /\ reqPath' = p /\ if_none_match' = <<>>
           /\ Replies(do_GET(p))
           /\ chain' = ChainWith(chain, do_GET(p))
    /\ UNCHANGED << SrvEnv, mtime >>
    /\ UNCHANGED << discVars, outVars, idxVars >>

\* A client sends a HEAD request, with or without an If-None-Match header.
HeadRequest ==
    \E p \in ReqPaths, h \in Headers :
        /\ method = "none"
        /\ method' = "HEAD" /\ reqPath' = p /\ if_none_match' = h
        /\ Replies(do_HEAD(p, h))
        /\ chain' = <<>>
        /\ UNCHANGED << SrvEnv, mtime >>
        /\ UNCHANGED << discVars, outVars, idxVars >>

\* The backing file is modified between two requests.
TouchFile ==
    /\ method = "none"
    /\ mtime < MaxMtime
    /\ mtime' = mtime + 1
    /\ UNCHANGED << SrvEnv, Request, Reply, chain >>
    /\ UNCHANGED << discVars, outVars, idxVars >>

\* The handler has returned or raised and the exchange is over.
FinishRequest ==
    /\ method # "none"
    /\ method' = "none" /\ reqPath' = <<>> /\ if_none_match' = <<>>
    /\ Replies(Answer("none", 0, <<>>, "none", "none"))
    /\ chain' = <<>>
    /\ UNCHANGED << SrvEnv, mtime >>
    /\ UNCHANGED << discVars, outVars, idxVars >>

SrvNext == GetRequest \/ FollowLocation \/ HeadRequest \/ TouchFile \/ FinishRequest


(***************************************************************************)
(* The specifications.                                                     *)
(***************************************************************************)
InitDiscovery == DiscInit /\ OutInit /\ IdxInit /\ SrvQuiet

\* getPackages on every file system and argument of the model.
SpecDiscovery ==
    InitDiscovery /\ [][DiscNext]_vars

\* Two runs of main's output loop on one output directory.
DiscQuiet ==
    /\ kind = [d \in Candidates |-> "unit"]
    /\ setup = [d \in Candidates |-> FALSE]
    /\ ignore = <<>>
    /\ skip_errors = FALSE
    /\ ori_packages = <<>>
    /\ depth0 = 1
    /\ packages = <<>>
    /\ depth = 1
    /\ modules = <<>> /\ packs = <<>> /\ subdirs = <<>> /\ errs = <<>>
    /\ pkgIdx = 1
    /\ directory = <<>> /\ packageMods = <<>> /\ subDirs = <<>> /\ scanIdx = 1
    /\ dpc = "done"
    /\ outcome = "returned"
    /\ errMsg = <<>>

InitOutput == DiscQuiet /\ OutInit /\ IdxInit /\ SrvQuiet

SpecOutput ==
    InitOutput /\ [][OutNext]_vars

\* The builds of the search index, one after the other.
InitIndex == DiscQuiet /\ OutInit /\ IdxInit /\ SrvQuiet

SpecIndex == InitIndex /\ [][IdxNext]_vars

\* The server answering one request after the other.
InitServer == DiscQuiet /\ OutInit /\ IdxInit /\ SrvInit

SpecServer == InitServer /\ [][SrvNext]_vars

(***************************************************************************)
(* Properties of getPackages (checked under SpecDiscovery).                *)
(***************************************************************************)
\* The Units of the result: the members of every PackageGroup, then the free
\* modules.
AllUnits == Flatten([k \in 1..Len(packs) |-> packs[k][2]]) \o modules

\* The entries of the running scan that are still to be looked at.
ScanRemaining == Len(subDirs) - scanIdx + 1

\* C1: getPackages terminates: every round finishes.  Stated as the progress
\* measure of the subdirectory scan inside a round: every iteration of
\* `for dir_ in subDirs` that stays in the scan leaves fewer entries to scan,
\* also when the subdirectory classifies as not-a-unit.
C1_ScanProgresses ==
    [][(dpc = "scan" /\ dpc' = "scan") => ScanRemaining' < ScanRemaining]_vars

\* C2: whenever getPackages returns, the result is non-empty and every Unit
\* appears exactly once across the PackageGroups and the free modules.
C2_UnitsExactlyOnce ==
    outcome = "returned" =>
        /\ (packs # <<>> \/ modules # <<>>)
        /\ NoDup(AllUnits)

AllRootsMissing == \A k \in 1..Len(ori_packages) : ~isdir(ori_packages[k])

\* C3: with only non-existent roots the call never gets past its first round
\* and ends in FileNotFoundError whose message lists exactly the roots, in
\* the order given, whatever the depth.
C3_AllMissingNotFound ==
    AllRootsMissing =>
        /\ depth = depth0
        /\ dpc = "done" =>
              /\ outcome = "FileNotFoundError"
              /\ errMsg = ori_packages

C3_Witness ==
    /\ AllRootsMissing
    /\ Len(ori_packages) = 2
    /\ depth0 = MaxDepth
    /\ dpc = "done"
    /\ outcome = "FileNotFoundError"

\* Every root exists, and neither a root nor a directory below one is importable
\* as a unit (none fails to import either).
RootsWithoutUnit ==
    /\ \A k \in 1..Len(ori_packages) : isdir(ori_packages[k])
    /\ \A d \in Candidates :
          (\E k \in 1..Len(ori_packages) :
               SubSeq(d, 1, Len(ori_packages[k])) = ori_packages[k])
              => kind[d] = "ns"

\* C4: roots that exist but hold no importable unit end in ModuleNotFoundError
\* after exactly depth0 rounds, never in an earlier FileNotFoundError.
C4_EmptyAfterDepth ==
    (dpc = "done" /\ RootsWithoutUnit) =>
        /\ outcome = "ModuleNotFoundError"
        /\ depth = 0

\* C5: a root list with at least one non-existent path never makes the call
\* return a result: it ends in FileNotFoundError.
C5_MissingRootRaises ==
    (\E k \in 1..Len(ori_packages) : ~isdir(ori_packages[k]))
        => outcome # "returned"

\* C6: with skip-errors active an unimportable candidate is left out and
\* discovery goes on: the call does not end in the ImportError.
C6_SkipErrorsOmits == skip_errors => outcome # "ImportError"

(***************************************************************************)
(* Properties of main's output loop (checked under SpecOutput).            *)
(***************************************************************************)
\* The target of a top-level unit, or for a package its directory, was there
\* when the run began.
TargetExisted(m) ==
    \/ files0[module_path(m, Ext)] # "none"
    \/ is_package(m) /\ dirname(module_path(m, Ext)) \in dirs0

\* C7: a run without force whose unit was written before (its file, or for a
\* package its directory, is there when the run begins) changes nothing in the
\* output directory and ends with exit status 1 and a diagnostic naming an
\* existing path of that unit.
C7_SecondRunCollides ==
    (run >= 1 /\ ~force /\ TargetExisted(main_modules[1])) =>
        /\ files = files0
        /\ dirs = dirs0
        /\ wpc = "exit" =>
              /\ status = "1"
              /\ diag \in Range(QuitPaths(main_modules[1], Ext))
              /\ lexists(files, dirs, diag)

C7_Witness ==
    /\ run = 2 /\ ~force /\ wpc = "exit" /\ status = "1"
    /\ main_modules = << <<"p">> >>
    /\ diag = module_path(<<"p">>, Ext)
    /\ \A m \in {<<"p">>, <<"p", "s">>, <<"p", "s", "b">>, <<"p", "a">>} :
          files[module_path(m, Ext)] = "first"

\* C8 as stated, for a run over distinct top-level units: whenever the run
\* aborts with OutputCollision, it has created or modified nothing, for any of
\* its units.
C8_NoWriteBeforeAbort ==
    (status = "1" /\ NoDup(main_modules)) => (files = files0 /\ dirs = dirs0)

RECURSIVE PreOrder(_)
\* A unit and the units below it, depth first, each unit before its submodules.
PreOrder(m) ==
    <<m>> \o Flatten([k \in 1..Len(submodules(m)) |-> PreOrder(submodules(m)[k])])

\* The files one top-level unit of the run is written to.
UnitFiles(m) ==
    [k \in 1..Len(PreOrder(m)) |-> module_path(PreOrder(m)[k], Ext)]
        \o (IF html /\ lunr THEN <<index_js(m), search_html(m)>> ELSE <<>>)

WritesOfFirst(n) == Flatten([k \in 1..n |-> UnitFiles(main_modules[k])])

\* C8 amended: the check of a top-level unit comes right before that unit is
\* written.  When the run aborts with OutputCollision at its k-th top-level
\* unit it has written the first k-1 units completely (their submodule trees
\* and search assets) and has created or modified no other file.
C8_AbortAfterEarlierUnits ==
    status = "1" =>
        /\ wrote = WritesOfFirst(modIdx - 1)
        /\ \A f \in Range(wrote) : files[f] = RunTags[run]
        /\ \A f \in AllFiles \ Range(wrote) : files[f] = files0[f]

C8_Witness ==
    /\ status = "1" /\ modIdx = 2
    /\ main_modules = << <<"m">>, <<"p">> >>
    /\ files0[module_path(<<"m">>, Ext)] = "none"
    /\ files[module_path(<<"m">>, Ext)] = RunTags[run]

C10_InternedIdsDense ==
    /\ \A a, b \in given : a[1] = b[1] => a[2] = b[2]
    /\ \A k \in 1..Len(seen) : <<seen[k], k - 1>> \in given
    /\ {a[1] : a \in given} = Range(seen)
    /\ ipc = "done" => urls = seen /\ NoDup(urls)

C10_Witness ==
    /\ build = 2 /\ ipc = "done"
    /\ Len(urls) = 2
    /\ Len(index) = MaxIndex
    /\ index[1] = 0 /\ index[2] = 1 /\ index[3] = 0

(***************************************************************************)
(* Properties of recursive_write_files (checked under SpecOutput).         *)
(***************************************************************************)
\* What the run has written since the call for its current top-level unit began.
WrittenByCall ==
    SubSeq(wrote, Len(WritesOfFirst(modIdx - 1)) + 1, Len(wrote))

\* C15: when a top-level call of recursive_write_files returns, it has written
\* exactly one file for every unit of the tree below its unit, each at
\* module_path with the run's extension and inside a directory that exists, in
\* depth-first pre-order: a unit before its submodules, a submodule's whole
\* subtree before the next sibling.
C15_WritesTreePreOrder ==
    (wpc = "write" /\ stack = <<>>) =>
        LET tree == PreOrder(main_modules[modIdx]) IN
            /\ WrittenByCall = [k \in 1..Len(tree) |-> module_path(tree[k], Ext)]
            /\ \A k \in 1..Len(tree) :
                  /\ files[module_path(tree[k], Ext)] = RunTags[run]
                  /\ dirname(module_path(tree[k], Ext)) \in dirs

C15_Witness ==
    /\ wpc = "write" /\ stack = <<>>
    /\ main_modules[modIdx] = <<"p">>
    /\ WrittenByCall =
          << module_path(<<"p">>, Ext), module_path(<<"p", "s">>, Ext),
             module_path(<<"p", "s", "b">>, Ext), module_path(<<"p", "a">>, Ext) >>

(***************************************************************************)
(* Properties of the live server (checked under SpecServer).               *)
(***************************************************************************)
\* The request path resolves to a unit that can be imported.
ResolvesToUnit ==
    \E u \in loadable : Dotted(u) = import_path_from_req_url(reqPath)

HeadOfUnitPath == method = "HEAD" /\ reqPath # SLASH

\* C11 as stated: for a HEAD request on a path that resolves to a unit whose
\* file can be examined, the status is 304 exactly when the If-None-Match
\* header the client sent equals the validator of the current modification
\* time.
C11_NotModifiedOnlyOnEqualValidator ==
    (HeadOfUnitPath /\ ResolvesToUnit /\ statOk) =>
        (response = 304 <=> if_none_match = << ToString(mtime) >>)

\* C11: a HEAD request on a non-root path is answered 404 when the path does
\* not resolve to a unit; when it resolves and the file can be examined, 304
\* if the request has no If-None-Match header or its value equals the
\* validator of the current modification time, and 205 if it has a different
\* value; when the file cannot be examined the error leaves the handler and
\* no status is sent.
C11_HeadStatus ==
    HeadOfUnitPath =>
        IF ~ResolvesToUnit THEN response = 404 /\ raised = "none"
        ELSE IF ~statOk THEN response = 0 /\ raised = "OSError"
        ELSE /\ raised = "none"
             /\ response \in {304, 205}
             /\ response = 304 <=>
                    (if_none_match = <<>> \/ if_none_match = << ToString(mtime) >>)

C11_Witness ==
    /\ HeadOfUnitPath /\ ResolvesToUnit /\ statOk
    /\ if_none_match = <<>>
    /\ response = 304

\* The GET request is for an external link: none of the earlier branches
\* takes a path that ends in ".ext".
GetOfExtPath ==
    /\ method = "GET" /\ reqPath # FAVICON /\ reqPath # SLASH
    /\ endswith(reqPath, DOT_EXT)

ExtImportPath == lstrip(DropLast(reqPath, DOT_EXT), "/")
ExtParts == split(ExtImportPath, ".")
PrefixPackageFile(i) ==
    SLASH \o joinAll(SubSeq(ExtParts, 1, i)) \o << "/", "index", ".", "html" >>
PrefixModuleFile(i) ==
    SLASH \o joinAll(SubSeq(ExtParts, 1, i)) \o << ".", "html" >>
PrefixesWithFile ==
    {i \in 1..Len(ExtParts) :
        \/ OutputDir \o PrefixPackageFile(i) \in generated
        \/ OutputDir \o PrefixModuleFile(i) \in generated}

\* C12: a request for p1.p2...pn.ext is answered with a 302 redirect to the
\* file of the longest prefix p1..pi that has a package index or a module
\* file in the output directory (the package index when it has both), with
\* '#' and the whole dotted path appended; when no prefix has a file, the
\* documentation of p1 is generated and answered with 200, or with 404 when
\* the generation fails.
C12_ExtResolution ==
    GetOfExtPath =>
        IF PrefixesWithFile # {}
        THEN LET i == CHOOSE k \in PrefixesWithFile : \A j \in PrefixesWithFile : j <= k
                 file == IF OutputDir \o PrefixPackageFile(i) \in generated
                         THEN PrefixPackageFile(i) ELSE PrefixModuleFile(i)
             IN /\ response = 302
                /\ location = file \o << "#" >> \o ExtImportPath
        ELSE /\ raised = "none"
             /\ IF Renders(ExtParts[1])
                THEN response = 200 /\ out = "generated"
                ELSE response = 404 /\ out = "error"

C12_Witness ==
    /\ GetOfExtPath
    /\ reqPath = << "/", "p", ".", "a", ".", "ext" >>
    /\ generated = GenFiles
    /\ response = 302
    /\ location = << "/", "p", "/", "a", "/", "index", ".", "html", "#", "p", ".", "a" >>

\* C13: every GET or HEAD request that reaches a branch with a collaborator
\* is answered with a status line and no exception leaves the handler.
C13_ErrorsBecomeStatus ==
    (method # "none" /\ reqPath # FAVICON) =>
        (response # 0 /\ raised = "none")

GetOfPackageIndexPath ==
    /\ method = "GET" /\ reqPath # FAVICON /\ reqPath # SLASH
    /\ ~endswith(reqPath, DOT_EXT)
    /\ endswith(reqPath, SLASH) \/ endswith(reqPath, DOT_HTML)
    /\ endswith(reqPath, _URL_PACKAGE_SUFFIX)

C16_RedirectsEnd ==
    /\ (method = "GET" /\ response = 302 /\ branch \in {"slash", "package"})
           => endswith(location, SLASH)
    /\ (method = "GET" /\ endswith(reqPath, SLASH)) => response # 302
    /\ Len(chain) < MaxFollow
    /\ \A k \in 1..Len(chain) :
           chain[k] = "ext" =>
               /\ Len(chain) <= k + 1
               /\ Len(chain) = k + 1 => chain[k + 1] \in {"slash", "package"}

C16_Witness ==
    /\ method = "GET"
    /\ chain = << "ext", "package" >>
    /\ reqPath = << "/", "p", "/" >>
    /\ response \in {200, 404}

====
